---- MODULE Spec2Model ----
(***************************************************************************)
(* BOM-Generator: the store-facing service (AzureSQLBOMService) and its    *)
(* handlers, over a transactional SQL store.                               *)
(*                                                                         *)
(* Tables are committed state; every pooled connection carries the writes  *)
(* it has executed but not yet committed.  Readers see committed rows plus *)
(* the pending writes of the connection they run on.  Each awaited         *)
(* statement of a multi-statement handler is one step of its worker.       *)
(*                                                                         *)
(* Money is counted in cents, so DECIMAL(.,2) arithmetic is integer        *)
(* arithmetic.                                                             *)
(***************************************************************************)
EXTENDS Integers, Sequences, FiniteSets, TLC

VARIABLES
    impl,                \* which service implementation is deployed: "api" | "svc"
    now,                 \* wall clock, in ticks of 1/TicksPerSecond s
    calls,               \* number of service calls started so far
    conn,                \* the connection pool: Conns -> connection state
    proc,                \* the request workers: Workers -> call frame
    bom_templates,       \* table bom_templates (committed rows)
    bom_template_parts,  \* table bom_template_parts (committed rows, insertion order)
    inventory_items,     \* table inventory_items (committed rows)
    audit_log            \* table audit_log (committed rows, insertion order)

vars == <<impl, now, calls, conn, proc, bom_templates, bom_template_parts,
          inventory_items, audit_log>>

----------------------------------------------------------------------------
(* Bounds of the model *)

NumWorkers == 2
PoolSize == 2
MaxParts == 2
MaxQty == 1
MaxStock == 2
MaxRequired == 2
MaxStoredParts == 3
MaxMinStock == 2
MaxClock == 1
MaxCalls == 2

TicksPerSecond == 2

Workers == 1..NumWorkers
Conns == 1..PoolSize
Impls == {"api", "svc"}
PartNumbers == {"A", "B"}
CustomIds == {"", "X"}

\* the name a client puts in its requests: one name per client
NameOf(w) == "n" \o ToString(w)

\* the price of a part, in cents: one price per part number
CatalogCost(p) == IF p = "A" THEN 3 ELSE 5

\* collation order of part numbers, as ORDER BY part_number compares them
PartRank(p) == IF p = "A" THEN 1 ELSE 2

RequestParts ==
    {[part_number |-> p, quantity_required |-> q, unit_cost |-> CatalogCost(p)] :
        p \in PartNumbers, q \in 1..MaxQty}

RECURSIVE SeqsUpTo(_, _)
SeqsUpTo(S, n) ==
    IF n = 0 THEN {<<>>}
    ELSE LET shorter == SeqsUpTo(S, n - 1)
         IN  shorter \cup {Append(s, x) : s \in {t \in shorter : Len(t) = n - 1}, x \in S}

PartLists == SeqsUpTo(RequestParts, MaxParts)

----------------------------------------------------------------------------
(* Helpers *)

Range(s) == {s[k] : k \in 1..Len(s)}

RECURSIVE SumSeq(_)
SumSeq(s) == IF s = <<>> THEN 0 ELSE Head(s) + SumSeq(Tail(s))

Digits == <<"0", "1", "2", "3", "4", "5", "6", "7", "8", "9">>

\* str(int): decimal digits, most significant first
RECURSIVE IntToStr(_)
IntToStr(n) ==
    IF n < 10 THEN Digits[n + 1]
    ELSE IntToStr(n \div 10) \o Digits[(n % 10) + 1]

\* int(datetime.now().timestamp()): whole seconds
Timestamp == now \div TicksPerSecond

----------------------------------------------------------------------------
(* The store: connections, transactions, derived columns *)

FreshConn ==
    [autocommit |-> FALSE, busy |-> FALSE, pend_headers |-> <<>>,
     pend_parts |-> <<>>, pend_stock |-> <<>>, pend_audit |-> <<>>]

\* what a worker holding connection c works on: the connection and the tables
Session(c) ==
    [cn |-> conn[c], templates |-> bom_templates, parts |-> bom_template_parts,
     inventory |-> inventory_items, audit |-> audit_log]

\* UPDATE of one inventory row, as recorded by a pending stock write
ApplyStockWrite(inv, u) ==
    {IF r.part_number = u.part_number
     THEN [r EXCEPT !.current_stock = u.current_stock,
                    !.inventory_value = u.inventory_value,
                    !.last_updated = u.last_updated]
     ELSE r : r \in inv}

RECURSIVE ApplyStockWrites(_, _)
ApplyStockWrites(inv, us) ==
    IF us = <<>> THEN inv
    ELSE ApplyStockWrites(ApplyStockWrite(inv, Head(us)), Tail(us))

ClearPending(cn) ==
    [cn EXCEPT !.pend_headers = <<>>, !.pend_parts = <<>>,
               !.pend_stock = <<>>, !.pend_audit = <<>>]

\* conn.commit(): every pending write of the connection becomes visible at once
Commit(S) ==
    [cn |-> ClearPending(S.cn),
     templates |-> S.templates \cup Range(S.cn.pend_headers),
     parts |-> S.parts \o S.cn.pend_parts,
     inventory |-> ApplyStockWrites(S.inventory, S.cn.pend_stock),
     audit |-> S.audit \o S.cn.pend_audit]

\* conn.rollback(): the pending writes of the connection are discarded
Rollback(S) == [S EXCEPT !.cn = ClearPending(S.cn)]

\* an executed statement commits at once on an autocommit connection
AfterStatement(S) == IF S.cn.autocommit THEN Commit(S) ELSE S

\* conn.autocommit(b): switching autocommit on commits the open transaction
SetAutocommit(S, b) ==
    LET S1 == [S EXCEPT !.cn.autocommit = b]
    IN  IF b THEN Commit(S1) ELSE S1

\* rows a statement on this connection reads: committed rows and its own writes
VisibleTemplates(S) == S.templates \cup Range(S.cn.pend_headers)
VisibleParts(S) == S.parts \o S.cn.pend_parts
VisibleInventory(S) == ApplyStockWrites(S.inventory, S.cn.pend_stock)

\* bom_template_parts.total_cost, derived by the store from the inserted row
DerivedTotalCost(quantity_required, unit_cost) == quantity_required * unit_cost

\* bom_templates.total_estimated_cost, derived by the store from the child rows
DerivedTotalEstimatedCost(rows) ==
    SumSeq([k \in 1..Len(rows) |-> rows[k].total_cost])

\* inventory_items.inventory_value of a newly inserted row, derived by the store
DerivedInventoryValue(current_stock, unit_cost) == current_stock * unit_cost

\* a store without the unique key
DuplicateBomIdNever(S, id) == FALSE

\* the unique key on bom_templates.bom_id rejects a second row with the same key
DuplicateBomId(S, id) == \E h \in VisibleTemplates(S) : h.bom_id = id

\* a row inserted by another open transaction is locked until that one ends
HeaderLocked(c, id) ==
    \E d \in Conns \ {c} : \E h \in Range(conn[d].pend_headers) : h.bom_id = id

StockLocked(c, p) ==
    \E d \in Conns \ {c} : \E u \in Range(conn[d].pend_stock) : u.part_number = p

\* self.pool.acquire() ... release on leaving the `async with` block
Acquire(cn) == [cn EXCEPT !.busy = TRUE]
Release(cn) == [cn EXCEPT !.busy = FALSE]
ReleaseS(S) == [S EXCEPT !.cn = Release(S.cn)]

----------------------------------------------------------------------------
(* Call frames of the workers *)

IdleFrame ==
    [pc |-> "idle", op |-> "none", cn |-> 0,
     name |-> "", custom_id |-> "", parts |-> <<>>, bom_id |-> "", i |-> 0,
     part_number |-> "", new_stock |-> 0, sp |-> "none", path |-> "none",
     success |-> FALSE, data |-> "", error |-> "", rows_affected |-> 0,
     found |-> FALSE, rows |-> <<>>, total |-> 0, audit |-> "none",
     method |-> "", request |-> <<>>, endpoint |-> "none", status |-> 0]

\* workers are interchangeable: a worker starts its first call only after
\* every worker before it has started one
CanCall(w) ==
    /\ proc[w].pc \in {"idle", "done"}
    /\ calls < MaxCalls
    /\ \A v \in 1..(w - 1) : proc[v].pc # "idle"

\* the connections pool.acquire() can hand out; unused connections are
\* interchangeable, so only the first of them is taken
CanAcquire(c) ==
    /\ ~conn[c].busy
    /\ conn[c] = FreshConn => \A d \in 1..(c - 1) : conn[d] # FreshConn

\* every identifier a template can get in this model
GeneratedIds == {"bom-" \o IntToStr(t) : t \in 0..(MaxClock \div TicksPerSecond)}
BomIds == (CustomIds \ {""}) \cup GeneratedIds

StoreOn(base, c, S) ==
    /\ conn' = [base EXCEPT ![c] = S.cn]
    /\ bom_templates' = S.templates
    /\ bom_template_parts' = S.parts
    /\ inventory_items' = S.inventory
    /\ audit_log' = S.audit

UnchangedTables ==
    UNCHANGED <<bom_templates, bom_template_parts, inventory_items, audit_log>>

----------------------------------------------------------------------------
(* Results *)

\* a service method that lets the exception out to its caller
ErrorRaised(f, e) == [f EXCEPT !.pc = "raised", !.cn = 0]

\* except Exception as e: return DatabaseResult(success=False, error=str(e))
\* e is the message the exception carries
ErrorResult(f, e) ==
    [f EXCEPT !.pc = "done", !.cn = 0, !.success = FALSE, !.error = e]

----------------------------------------------------------------------------
(* create_bom_template *)

\* CreateBOMTemplateRequest: api/models declares parts with default [],
\* src/services declares parts with min_items=1
ValidCreateRequest(parts) ==
    IF impl = "api" THEN TRUE ELSE Len(parts) >= 1

\* an identifier generated from the clock at sub-second resolution
ResolveBomIdTicks(custom_id) ==
    IF custom_id # "" THEN custom_id ELSE "bom-" \o IntToStr(now)

\* request.custom_id or f"bom-{int(datetime.now().timestamp())}"
\* ("" stands for a custom_id that is None or empty: `or` takes both alike)
ResolveBomId(custom_id) ==
    IF custom_id # "" THEN custom_id ELSE "bom-" \o IntToStr(Timestamp)

\* no transaction is opened: every statement commits on its own
BeginTransactionAutocommit(S) == SetAutocommit(S, TRUE)

\* await conn.autocommit(False)  /  await conn.begin()
BeginTransaction(S) == SetAutocommit(S, FALSE)

NewHeader(id, name) ==
    [bom_id |-> id, name |-> name, version |-> "1.0", status |-> "draft",
     created_by |-> "bom-generator"]

NewPartRow(id, part) ==
    [bom_id |-> id, part_number |-> part.part_number,
     quantity_required |-> part.quantity_required, unit_cost |-> part.unit_cost,
     total_cost |-> DerivedTotalCost(part.quantity_required, part.unit_cost)]

\* a create that sends no header INSERT before the part INSERTs
InsertHeaderSkipped(S, id, name) == AfterStatement(S)

\* INSERT INTO bom_templates (...) VALUES (...)
InsertHeader(S, id, name) ==
    AfterStatement([S EXCEPT !.cn.pend_headers = Append(@, NewHeader(id, name))])

InsertPart(S, id, part) ==
    AfterStatement([S EXCEPT !.cn.pend_parts = Append(@, NewPartRow(id, part))])

\* the failure path without the rollback: what is pending stays on the connection
OnCreateFailureNoRollback(S) ==
    IF impl = "api" THEN SetAutocommit(S, TRUE) ELSE S

\* except: await conn.rollback(); raise  /  finally: await conn.autocommit(True)
OnCreateFailure(S) ==
    IF impl = "api" THEN SetAutocommit(Rollback(S), TRUE) ELSE Rollback(S)

\* a create that goes on to the audit entry without committing
OnCreateSuccessNoCommit(S) ==
    IF impl = "api" THEN SetAutocommit(S, TRUE) ELSE S

\* await conn.commit(); return  /  finally: await conn.autocommit(True)
OnCreateSuccess(S) ==
    IF impl = "api" THEN SetAutocommit(Commit(S), TRUE) ELSE Commit(S)

\* a statement of the transaction has raised. Either the rollback (and the
\* restoring of autocommit) goes through, or the statement raised because the
\* connection is gone and these raise too: the store then drops the open
\* transaction, the pool replaces the connection, and the outer except clause
\* gets the last exception
CreateFails(w, S, id, err) ==
    \/ /\ StoreOn(conn, proc[w].cn, ReleaseS(OnCreateFailure(S)))
       /\ proc' = [proc EXCEPT ![w] = ErrorResult([@ EXCEPT !.bom_id = id], err)]
    \/ /\ err = "store error"
       /\ conn' = [conn EXCEPT ![proc[w].cn] = FreshConn]
       /\ UnchangedTables
       /\ proc' = [proc EXCEPT ![w] = ErrorResult([@ EXCEPT !.bom_id = id],
                                                  "connection lost")]

CreateCall(w, name, custom_id, parts) ==
    /\ CanCall(w)
    /\ calls' = calls + 1
    /\ UNCHANGED <<impl, now>>
    /\ LET frame == [IdleFrame EXCEPT !.op = "create_bom_template", !.name = name,
                                      !.custom_id = custom_id, !.parts = parts]
       IN  IF ~ValidCreateRequest(parts)
           THEN /\ proc' = [proc EXCEPT ![w] = [frame EXCEPT !.pc = "done",
                                                             !.error = "validation"]]
                /\ UNCHANGED conn
                /\ UnchangedTables
           ELSE \/ \E c \in Conns :
                     /\ CanAcquire(c)
                     /\ StoreOn(conn, c,
                                BeginTransaction([Session(c) EXCEPT !.cn = Acquire(@)]))
                     /\ proc' = [proc EXCEPT ![w] =
                            [frame EXCEPT !.pc = "ct_header", !.cn = c,
                                          !.bom_id = IF impl = "api"
                                                     THEN ResolveBomId(custom_id) ELSE ""]]
                \* the pool is missing or closed: acquire raises inside the try
                \/ /\ proc' = [proc EXCEPT ![w] = ErrorResult(frame, "no connection pool")]
                   /\ UNCHANGED conn
                   /\ UnchangedTables

CreateHeader(w, fail) ==
    LET f == proc[w]
        c == f.cn
        id == IF impl = "api" THEN f.bom_id ELSE ResolveBomId(f.custom_id)
    IN  /\ f.pc = "ct_header"
        /\ ~HeaderLocked(c, id)
        /\ UNCHANGED <<impl, now, calls>>
        /\ IF fail THEN CreateFails(w, Session(c), id, "store error")
           ELSE IF DuplicateBomId(Session(c), id)
                THEN CreateFails(w, Session(c), id, "duplicate key")
                ELSE /\ StoreOn(conn, c, InsertHeader(Session(c), id, f.name))
                     /\ proc' = [proc EXCEPT ![w] = [@ EXCEPT !.pc = "ct_parts",
                                                              !.bom_id = id, !.i = 1]]

CreatePart(w, fail) ==
    LET f == proc[w]
        c == f.cn
    IN  /\ f.pc = "ct_parts"
        /\ f.i <= Len(f.parts)
        /\ UNCHANGED <<impl, now, calls>>
        /\ IF fail THEN CreateFails(w, Session(c), f.bom_id, "store error")
           ELSE /\ StoreOn(conn, c, InsertPart(Session(c), f.bom_id, f.parts[f.i]))
                /\ proc' = [proc EXCEPT ![w] = [@ EXCEPT !.i = f.i + 1]]

CreateCommit(w, fail) ==
    LET f == proc[w]
        c == f.cn
    IN  /\ f.pc = "ct_parts"
        /\ f.i > Len(f.parts)
        /\ UNCHANGED <<impl, now, calls>>
        /\ IF fail THEN CreateFails(w, Session(c), f.bom_id, "store error")
           ELSE IF impl = "api"
                THEN \* the service returns; the handler goes on to log the action
                     /\ StoreOn(conn, c, ReleaseS(OnCreateSuccess(Session(c))))
                     /\ proc' = [proc EXCEPT ![w] = [@ EXCEPT !.pc = "ct_audit", !.cn = 0,
                                     !.success = TRUE, !.data = f.bom_id]]
                ELSE \* the service logs the action before it returns
                     /\ StoreOn(conn, c, OnCreateSuccess(Session(c)))
                     /\ proc' = [proc EXCEPT ![w] = [@ EXCEPT !.pc = "ct_audit"]]

----------------------------------------------------------------------------
(* log_action *)

AuditEntry(action, entity_type, entity_id) ==
    [action |-> action, entity_type |-> entity_type, entity_id |-> entity_id]

\* INSERT INTO audit_log ...; await conn.commit()
LogAction(S, entry) == Commit([S EXCEPT !.cn.pend_audit = Append(@, entry)])

\* json.dumps(details): request.dict() of api/models keeps the unit_cost of every
\* part a Decimal, which json.dumps refuses with a TypeError; model_dump() of
\* src/services gives floats
DetailsSerializable(parts) == impl = "svc" \/ parts = <<>>

\* a log_action that lets its exception out
LogActionRaisesOnFailure(failed) == failed

\* log_action: except Exception as e: logger.error(...) and nothing is raised
LogActionRaises(failed) == FALSE

\* the audit step of create_bom_template: the handler of the api calls log_action
\* after the service has returned, the service of src/services before it returns
CreateAudit(w, fail) ==
    LET f == proc[w]
        base == IF f.cn = 0 THEN conn ELSE [conn EXCEPT ![f.cn] = Release(@)]
        outcome == IF ~DetailsSerializable(f.parts) THEN "not sent"
                   ELSE IF fail THEN "refused" ELSE "written"
    IN  /\ f.pc = "ct_audit"
        /\ UNCHANGED <<impl, now, calls>>
        /\ \E c \in Conns :
             /\ CanAcquire(c)
             /\ LET S == Session(c)
                IN  StoreOn(base, c,
                        IF outcome = "written"
                        THEN LogAction(S, AuditEntry("CREATE", "bom_template", f.bom_id))
                        ELSE S)
        /\ proc' = [proc EXCEPT ![w] =
               IF LogActionRaises(outcome # "written")
               THEN [@ EXCEPT !.pc = "done", !.cn = 0, !.success = FALSE, !.data = "",
                              !.error = "store error", !.audit = outcome]
               ELSE [@ EXCEPT !.pc = "done", !.cn = 0, !.success = TRUE,
                              !.data = f.bom_id, !.audit = outcome]]

----------------------------------------------------------------------------
(* get_bom_template *)

RECURSIVE InsertByPartNumber(_, _)
InsertByPartNumber(r, s) ==
    IF s = <<>> THEN <<r>>
    ELSE IF PartRank(r.part_number) < PartRank(Head(s).part_number)
         THEN <<r>> \o s
         ELSE <<Head(s)>> \o InsertByPartNumber(r, Tail(s))

\* ORDER BY part_number
RECURSIVE OrderByPartNumber(_)
OrderByPartNumber(s) ==
    IF s = <<>> THEN <<>>
    ELSE InsertByPartNumber(Head(s), OrderByPartNumber(Tail(s)))

\* the same SELECT without its ORDER BY
SelectPartsUnordered(S, id) ==
    SelectSeq(VisibleParts(S), LAMBDA r : r.bom_id = id)

\* SELECT ... FROM bom_template_parts WHERE bom_id = ? ORDER BY part_number
SelectParts(S, id) ==
    OrderByPartNumber(SelectSeq(VisibleParts(S), LAMBDA r : r.bom_id = id))

\* SELECT ... FROM bom_templates WHERE bom_id = ?
SelectHeader(S, id) == {h \in VisibleTemplates(S) : h.bom_id = id}

GetTemplateCall(w, id, fail) ==
    /\ CanCall(w)
    /\ calls' = calls + 1
    /\ UNCHANGED <<impl, now>>
    /\ UnchangedTables
    /\ LET frame == [IdleFrame EXCEPT !.op = "get_bom_template", !.bom_id = id]
       IN  \E c \in Conns :
             /\ CanAcquire(c)
             /\ LET S == Session(c)
                IN  IF fail
                    THEN /\ proc' = [proc EXCEPT ![w] = [frame EXCEPT !.pc = "done",
                                                              !.error = "store error"]]
                         /\ UNCHANGED conn
                    ELSE IF SelectHeader(S, id) = {}
                    THEN /\ proc' = [proc EXCEPT ![w] = [frame EXCEPT !.pc = "done",
                                                              !.success = TRUE]]
                         /\ UNCHANGED conn
                    ELSE /\ proc' = [proc EXCEPT ![w] =
                                [frame EXCEPT !.pc = "gt_parts", !.cn = c, !.found = TRUE,
                                    !.name = (CHOOSE h \in SelectHeader(S, id) : TRUE).name,
                                    !.total = DerivedTotalEstimatedCost(
                                        SelectSeq(VisibleParts(S), LAMBDA r : r.bom_id = id))]]
                         /\ conn' = [conn EXCEPT ![c] = Acquire(@)]

GetTemplateParts(w, fail) ==
    LET f == proc[w]
        c == f.cn
    IN  /\ f.pc = "gt_parts"
        /\ UNCHANGED <<impl, now, calls>>
        /\ UnchangedTables
        /\ conn' = [conn EXCEPT ![c] = Release(@)]
        /\ proc' = [proc EXCEPT ![w] =
               IF fail
               THEN [@ EXCEPT !.pc = "done", !.cn = 0, !.found = FALSE, !.name = "",
                              !.total = 0, !.error = "store error"]
               ELSE [@ EXCEPT !.pc = "done", !.cn = 0, !.success = TRUE,
                              !.rows = SelectParts(Session(c), f.bom_id)]]

----------------------------------------------------------------------------
(* check_bom_availability *)

\* a nullable integer column of a LEFT JOIN
SqlInt(v) == [null |-> FALSE, v |-> v]
SqlNull == [null |-> TRUE, v |-> 0]

\* ISNULL(x, d)
IsNull(x, d) == IF x.null THEN d ELSE x.v

\* WHEN x >= k / WHEN x > k: a comparison with NULL is not true
SqlGe(x, k) == ~x.null /\ x.v >= k
SqlGt(x, k) == ~x.null /\ x.v > k

\* LEFT JOIN inventory_items ii ON btp.part_number = ii.part_number: ii.current_stock
JoinedStock(S, p) ==
    LET m == {r \in VisibleInventory(S) : r.part_number = p}
    IN  IF m = {} THEN SqlNull ELSE SqlInt((CHOOSE r \in m : TRUE).current_stock)

\* the shortage column with the ISNULL left out: NULL - anything is NULL, read as 0
ShortageNoIsNull(x, q) ==
    IF SqlGe(x, q) THEN 0 ELSE IF x.null THEN 0 ELSE q - x.v

\* CASE WHEN ii.current_stock >= q THEN 0 ELSE q - ISNULL(ii.current_stock, 0) END
Shortage(x, q) ==
    IF SqlGe(x, q) THEN 0 ELSE q - IsNull(x, 0)

\* the available_quantity column without the cap at the required quantity
AvailableQuantityNoCap(x, q) ==
    IF SqlGt(x, 0) THEN x.v ELSE 0

\* CASE WHEN ii.current_stock >= q THEN q WHEN ii.current_stock > 0
\*      THEN ii.current_stock ELSE 0 END
AvailableQuantity(x, q) ==
    IF SqlGe(x, q) THEN q ELSE IF SqlGt(x, 0) THEN x.v ELSE 0

\* CASE WHEN ii.current_stock >= q THEN 'Available' WHEN ii.current_stock > 0
\*      THEN 'Partial' ELSE 'Unavailable' END
AvailabilityStatus(x, q) ==
    IF SqlGe(x, q) THEN "Available" ELSE IF SqlGt(x, 0) THEN "Partial" ELSE "Unavailable"

\* one row of the SELECT, for the part row r joined with stock x
AvailabilityRow(r, x) ==
    [part_number |-> r.part_number,
     quantity_required |-> r.quantity_required,
     current_stock |-> IsNull(x, 0),
     available_quantity |-> AvailableQuantity(x, r.quantity_required),
     shortage |-> Shortage(x, r.quantity_required),
     availability_status |-> AvailabilityStatus(x, r.quantity_required)]

\* the order of the status strings in the collation: by their first letter
StatusCollation(s) ==
    IF s = "Available" THEN 1 ELSE IF s = "Partial" THEN 2 ELSE 3

\* ORDER BY availability_status ASC, shortage DESC
AvailabilityBeforeAscending(a, b) ==
    \/ StatusCollation(a.availability_status) < StatusCollation(b.availability_status)
    \/ /\ a.availability_status = b.availability_status
       /\ a.shortage > b.shortage

\* ORDER BY availability_status DESC, shortage DESC: a comes strictly before b
AvailabilityBefore(a, b) ==
    \/ StatusCollation(a.availability_status) > StatusCollation(b.availability_status)
    \/ /\ a.availability_status = b.availability_status
       /\ a.shortage > b.shortage

RECURSIVE InsertByAvailability(_, _)
InsertByAvailability(r, s) ==
    IF s = <<>> THEN <<r>>
    ELSE IF AvailabilityBefore(Head(s), r)
         THEN <<Head(s)>> \o InsertByAvailability(r, Tail(s))
         ELSE <<r>> \o s

RECURSIVE OrderByAvailability(_)
OrderByAvailability(s) ==
    IF s = <<>> THEN <<>>
    ELSE InsertByAvailability(Head(s), OrderByAvailability(Tail(s)))

\* the availability SELECT of the service and of main_bom_availability
SelectAvailability(S, id) ==
    LET rows == SelectSeq(VisibleParts(S), LAMBDA r : r.bom_id = id)
    IN  OrderByAvailability(
            [k \in 1..Len(rows) |->
                AvailabilityRow(rows[k], JoinedStock(S, rows[k].part_number))])

CheckAvailabilityCall(w, id, fail) ==
    /\ CanCall(w)
    /\ calls' = calls + 1
    /\ UNCHANGED <<impl, now, conn>>
    /\ UnchangedTables
    /\ LET frame == [IdleFrame EXCEPT !.op = "check_bom_availability", !.bom_id = id,
                                      !.pc = "done"]
       IN  \E c \in Conns :
             /\ CanAcquire(c)
             /\ proc' = [proc EXCEPT ![w] =
                    IF fail THEN [frame EXCEPT !.error = "store error"]
                    ELSE [frame EXCEPT !.success = TRUE,
                                       !.rows = SelectAvailability(Session(c), id)]]

----------------------------------------------------------------------------
(* update_inventory_stock *)

\* a request model without the lower bound on new_stock
ValidStockRequestAny(new_stock) == TRUE

\* UpdateInventoryStockRequest declares new_stock with ge=0
ValidStockRequest(new_stock) == new_stock >= 0

\* ... FROM inventory_items WHERE part_number = ?
MatchedRows(S, p) == {r \in VisibleInventory(S) : r.part_number = p}

\* sp_update_inventory_stock sets current_stock, recomputes inventory_value
\* from it and stamps last_updated, in one operation
SpStockWrite(r, n) ==
    [part_number |-> r.part_number, current_stock |-> n,
     inventory_value |-> n * r.unit_cost, last_updated |-> now]

\* sp_update_inventory_stock rejects a part number that has no record
SpRejects(S, p) == MatchedRows(S, p) = {}

\* UPDATE inventory_items SET current_stock = ?,
\*     inventory_value = current_stock * unit_cost, last_updated = GETUTCDATE()
\* the right-hand sides of SET read the row as it was before the statement
FallbackStockWrite(r, n) ==
    [part_number |-> r.part_number, current_stock |-> n,
     inventory_value |-> r.current_stock * r.unit_cost, last_updated |-> now]

\* a write statement applied to the rows it matches (at most one per part number)
ExecStockWrite(S, p, us) ==
    IF MatchedRows(S, p) = {} THEN S
    ELSE AfterStatement([S EXCEPT !.cn.pend_stock = Append(@, CHOOSE u \in us : TRUE)])

SpUpdateStock(S, p, n) ==
    ExecStockWrite(S, p, {SpStockWrite(r, n) : r \in MatchedRows(S, p)})

FallbackUpdateStock(S, p, n) ==
    ExecStockWrite(S, p, {FallbackStockWrite(r, n) : r \in MatchedRows(S, p)})

\* except Exception as e: return DatabaseResult(success=False, ...): the
\* connection goes back to the pool as it is, with no rollback
OnUpdateFailure(cn) == Release(cn)

UpdateStockCall(w, p, n) ==
    /\ CanCall(w)
    /\ calls' = calls + 1
    /\ UNCHANGED <<impl, now>>
    /\ UnchangedTables
    /\ LET frame == [IdleFrame EXCEPT !.op = "update_inventory_stock",
                                      !.part_number = p, !.new_stock = n]
       IN  IF ~ValidStockRequest(n)
           THEN /\ proc' = [proc EXCEPT ![w] = [frame EXCEPT !.pc = "done",
                                                     !.error = "validation"]]
                /\ UNCHANGED conn
           ELSE \/ \E c \in Conns :
                     /\ CanAcquire(c)
                     /\ proc' = [proc EXCEPT ![w] = [frame EXCEPT !.pc = "us_exec", !.cn = c]]
                     /\ conn' = [conn EXCEPT ![c] = Acquire(@)]
                \* the pool is missing or closed: acquire raises inside the try
                \/ /\ proc' = [proc EXCEPT ![w] = ErrorResult(frame, "no connection pool")]
                   /\ UNCHANGED conn

\* EXEC sp_update_inventory_stock ?, ?, ?
UpdateStockExec(w, unavailable) ==
    LET f == proc[w]
        c == f.cn
        S == Session(c)
        sp == IF unavailable THEN "unavailable"
              ELSE IF SpRejects(S, f.part_number) THEN "rejected" ELSE "ok"
    IN  /\ f.pc = "us_exec"
        /\ sp = "ok" => ~StockLocked(c, f.part_number)
        /\ UNCHANGED <<impl, now, calls>>
        /\ IF sp = "ok"
           THEN /\ StoreOn(conn, c, SpUpdateStock(S, f.part_number, f.new_stock))
                /\ proc' = [proc EXCEPT ![w] = [@ EXCEPT !.pc = "us_commit", !.sp = sp,
                                !.path = "sp", !.rows_affected = 1]]
           ELSE IF impl = "api"
           THEN \* except: whatever the EXEC raised, go on with the UPDATE
                /\ proc' = [proc EXCEPT ![w] = [@ EXCEPT !.pc = "us_fallback", !.sp = sp]]
                /\ UNCHANGED conn
                /\ UnchangedTables
           ELSE /\ proc' = [proc EXCEPT ![w] =
                       ErrorResult([@ EXCEPT !.sp = sp],
                                   IF sp = "rejected" THEN "not found" ELSE "store error")]
                /\ conn' = [conn EXCEPT ![c] = OnUpdateFailure(@)]
                /\ UnchangedTables

\* the UPDATE of the except branch; cursor.rowcount is the number of rows matched
UpdateStockFallback(w, fail) ==
    LET f == proc[w]
        c == f.cn
        S == Session(c)
    IN  /\ f.pc = "us_fallback"
        /\ ~fail => ~StockLocked(c, f.part_number)
        /\ UNCHANGED <<impl, now, calls>>
        /\ IF fail
           THEN /\ proc' = [proc EXCEPT ![w] = ErrorResult(@, "store error")]
                /\ conn' = [conn EXCEPT ![c] = OnUpdateFailure(@)]
                /\ UnchangedTables
           ELSE /\ StoreOn(conn, c,
                       FallbackUpdateStock(S, f.part_number, f.new_stock))
                /\ proc' = [proc EXCEPT ![w] = [@ EXCEPT !.pc = "us_commit",
                                !.path = "fallback",
                                !.rows_affected = Cardinality(MatchedRows(S, f.part_number))]]

\* await conn.commit(); return DatabaseResult(success=True, rows_affected=...)
\* a commit that raises leaves the `async with` block without a rollback
UpdateStockCommit(w, fail) ==
    LET f == proc[w]
        c == f.cn
    IN  /\ f.pc = "us_commit"
        /\ UNCHANGED <<impl, now, calls>>
        /\ IF fail
           THEN /\ proc' = [proc EXCEPT ![w] =
                       ErrorResult([@ EXCEPT !.rows_affected = 0], "store error")]
                /\ conn' = [conn EXCEPT ![c] = OnUpdateFailure(@)]
                /\ UnchangedTables
           ELSE /\ StoreOn(conn, c, ReleaseS(Commit(Session(c))))
                /\ proc' = [proc EXCEPT ![w] = [@ EXCEPT !.pc = "done", !.cn = 0,
                                !.success = TRUE]]

----------------------------------------------------------------------------
(* create_inventory_item *)

\* the unique key on inventory_items.part_number
DuplicatePartNumber(S, p) == \E r \in VisibleInventory(S) : r.part_number = p

\* INSERT INTO inventory_items (part_number, ..., current_stock, min_stock,
\* unit_cost, ...): inventory_value is not among the columns, the store derives it
NewInventoryRow(p, stock, min) ==
    [part_number |-> p, current_stock |-> stock, min_stock |-> min,
     unit_cost |-> CatalogCost(p),
     inventory_value |-> DerivedInventoryValue(stock, CatalogCost(p)),
     last_updated |-> now]

\* item.dict() of api/models keeps unit_cost a Decimal, which json.dumps refuses;
\* item.model_dump() of src/services gives a float
ItemDetailsSerializable == impl = "svc"

\* the INSERT and the commit of create_inventory_item
CreateItemCall(w, p, stock, fail) ==
    /\ CanCall(w)
    /\ calls' = calls + 1
    /\ UNCHANGED <<impl, now>>
    /\ LET frame == [IdleFrame EXCEPT !.op = "create_inventory_item",
                                      !.part_number = p, !.new_stock = stock]
       IN  \E c \in Conns :
             /\ CanAcquire(c)
             /\ ~StockLocked(c, p)
             /\ LET S == Session(c)
                IN  IF fail \/ DuplicatePartNumber(S, p)
                    THEN /\ proc' = [proc EXCEPT ![w] = [frame EXCEPT !.pc = "done",
                                         !.error = IF fail THEN "store error"
                                                   ELSE "duplicate key"]]
                         /\ UNCHANGED conn
                         /\ UnchangedTables
                    ELSE /\ StoreOn(conn, c,
                                Commit([S EXCEPT !.inventory =
                                            @ \cup {NewInventoryRow(p, stock, 1)},
                                        !.cn = IF impl = "api" THEN @ ELSE Acquire(@)]))
                         /\ proc' = [proc EXCEPT ![w] = [frame EXCEPT !.pc = "ci_audit",
                                         !.cn = IF impl = "api" THEN 0 ELSE c,
                                         !.rows_affected = 1]]

\* the log_action of create_inventory_item: called by the handler of the api,
\* by the service itself in src/services
CreateItemAudit(w, fail) ==
    LET f == proc[w]
        base == IF f.cn = 0 THEN conn ELSE [conn EXCEPT ![f.cn] = Release(@)]
        outcome == IF ~ItemDetailsSerializable THEN "not sent"
                   ELSE IF fail THEN "refused" ELSE "written"
    IN  /\ f.pc = "ci_audit"
        /\ UNCHANGED <<impl, now, calls>>
        /\ \E c \in Conns :
             /\ CanAcquire(c)
             /\ LET S == Session(c)
                IN  StoreOn(base, c,
                        IF outcome = "written"
                        THEN LogAction(S, AuditEntry("CREATE",
                                 IF impl = "api" THEN "inventory" ELSE "inventory_item",
                                 f.part_number))
                        ELSE S)
        /\ proc' = [proc EXCEPT ![w] =
               IF LogActionRaises(outcome # "written")
               THEN [@ EXCEPT !.pc = "done", !.cn = 0, !.success = FALSE,
                              !.rows_affected = 0, !.error = "store error",
                              !.audit = outcome]
               ELSE [@ EXCEPT !.pc = "done", !.cn = 0, !.success = TRUE,
                              !.audit = outcome]]

----------------------------------------------------------------------------
(* get_inventory_item *)

\* SELECT ... FROM inventory_items WHERE part_number = ?; fetchone()
GetInventoryItemResult(frame, S, p, fail) ==
    LET rows == MatchedRows(S, p)
    IN  IF fail THEN [frame EXCEPT !.error = "store error"]
        ELSE IF rows = {} THEN [frame EXCEPT !.success = TRUE]
        ELSE [frame EXCEPT !.success = TRUE, !.found = TRUE,
                           !.rows = <<CHOOSE r \in rows : TRUE>>]

GetInventoryItemCall(w, p, fail) ==
    /\ CanCall(w)
    /\ calls' = calls + 1
    /\ UNCHANGED <<impl, now, conn>>
    /\ UnchangedTables
    /\ LET frame == [IdleFrame EXCEPT !.op = "get_inventory_item", !.part_number = p,
                                      !.pc = "done"]
       IN  \E c \in Conns :
             /\ CanAcquire(c)
             /\ proc' = [proc EXCEPT ![w] =
                             GetInventoryItemResult(frame, Session(c), p, fail)]

----------------------------------------------------------------------------
(* get_low_stock_items *)

\* a filter that also takes the records at their minimum
IsLowStockOrEqual(r) == r.current_stock <= r.min_stock

\* WHERE current_stock < min_stock
IsLowStock(r) == r.current_stock < r.min_stock

\* SELECT part_number, ..., current_stock, min_stock,
\*        (min_stock - current_stock) as shortage, ...
LowStockItem(r) ==
    [part_number |-> r.part_number, current_stock |-> r.current_stock,
     min_stock |-> r.min_stock, shortage |-> r.min_stock - r.current_stock]

\* ORDER BY (min_stock - current_stock) ASC
LowStockOrderedAscending(s) ==
    \A j \in 1..Len(s), k \in 1..Len(s) : j < k => s[j].shortage <= s[k].shortage

\* ORDER BY (min_stock - current_stock) DESC
LowStockOrdered(s) ==
    \A j \in 1..Len(s), k \in 1..Len(s) : j < k => s[j].shortage >= s[k].shortage

\* every order of the rows the store may return; rows of equal shortage come
\* in either order
LowStockResults(S) ==
    LET items == {LowStockItem(r) : r \in {x \in VisibleInventory(S) : IsLowStock(x)}}
    IN  {s \in SeqsUpTo(items, Cardinality(items)) :
            /\ Len(s) = Cardinality(items)
            /\ Range(s) = items
            /\ LowStockOrdered(s)}

\* the results the query may give, one for each order of the rows
GetLowStockItemsResults(frame, S, fail) ==
    IF fail THEN {[frame EXCEPT !.error = "store error"]}
    ELSE {[frame EXCEPT !.success = TRUE, !.rows = rows] : rows \in LowStockResults(S)}

GetLowStockItemsCall(w, fail) ==
    /\ CanCall(w)
    /\ calls' = calls + 1
    /\ UNCHANGED <<impl, now, conn>>
    /\ UnchangedTables
    /\ LET frame == [IdleFrame EXCEPT !.op = "get_low_stock_items", !.pc = "done"]
       IN  \E c \in Conns :
             /\ CanAcquire(c)
             /\ \E result \in GetLowStockItemsResults(frame, Session(c), fail) :
                  proc' = [proc EXCEPT ![w] = result]

----------------------------------------------------------------------------
(* The FastAPI application: routing and the two inventory GET handlers *)

Route(method, path, endpoint) ==
    [method |-> method, path |-> path, endpoint |-> endpoint]

\* the path operations of the application, in the order of their decorators
Routes ==
    << Route("GET", <<"api", "health">>, "health_check"),
       Route("GET", <<"api", "inventory">>, "get_inventory_items"),
       Route("GET", <<"api", "inventory", "{part_number}">>, "get_inventory_item"),
       Route("POST", <<"api", "inventory">>, "create_inventory_item"),
       Route("PUT", <<"api", "inventory", "{part_number}", "stock">>,
             "update_inventory_stock"),
       Route("GET", <<"api", "inventory", "low-stock">>, "get_low_stock_items"),
       Route("GET", <<"api", "bom", "templates">>, "get_bom_templates"),
       Route("GET", <<"api", "bom", "templates", "{bom_id}">>, "get_bom_template"),
       Route("POST", <<"api", "bom", "templates">>, "create_bom_template"),
       Route("GET", <<"api", "bom", "templates", "{bom_id}", "availability">>,
             "check_bom_availability"),
       Route("GET", <<"api", "config", "system">>, "get_system_configuration") >>

\* a path parameter matches any one non-empty segment
PathParams == {"{part_number}", "{bom_id}"}

PathMatches(route, segs) ==
    /\ Len(route.path) = Len(segs)
    /\ \A k \in 1..Len(segs) : route.path[k] \in PathParams \/ route.path[k] = segs[k]

\* routes are tried in declaration order and the first full match is taken
FirstMatch(ks) == CHOOSE k \in ks : \A j \in ks : k <= j

\* the endpoint a request is dispatched to, with the values of its path
\* parameters; a path that matches only under another method gives 405
Dispatch(method, segs) ==
    LET full == {k \in 1..Len(Routes) :
                    PathMatches(Routes[k], segs) /\ Routes[k].method = method}
        partial == {k \in 1..Len(Routes) : PathMatches(Routes[k], segs)}
    IN  IF full # {}
        THEN LET r == Routes[FirstMatch(full)]
             IN  [endpoint |-> r.endpoint,
                  part_number |-> IF \E k \in 1..Len(segs) : r.path[k] = "{part_number}"
                                  THEN segs[CHOOSE k \in 1..Len(segs) :
                                                r.path[k] = "{part_number}"]
                                  ELSE ""]
        ELSE [endpoint |-> IF partial # {} THEN "method_not_allowed" ELSE "not_found",
              part_number |-> ""]

\* the requests sent to the application
RequestMethods == {"GET", "DELETE"}
RequestPaths ==
    {<<"api", "inventory", p>> : p \in PartNumbers \cup {"low-stock"}}
        \cup {<<"api", "stock">>}

HttpRequest(w, method, segs) ==
    /\ CanCall(w)
    /\ calls' = calls + 1
    /\ UNCHANGED <<impl, now, conn>>
    /\ UnchangedTables
    /\ LET d == Dispatch(method, segs)
           frame == [IdleFrame EXCEPT !.method = method, !.request = segs,
                                      !.endpoint = d.endpoint,
                                      !.part_number = d.part_number]
       IN  proc' = [proc EXCEPT ![w] =
               IF d.endpoint = "not_found"
               THEN [frame EXCEPT !.pc = "done", !.status = 404]
               ELSE IF d.endpoint = "method_not_allowed"
               THEN [frame EXCEPT !.pc = "done", !.status = 405]
               ELSE [frame EXCEPT !.pc = "routed"]]

\* get_inventory_item: 500 when the service fails, 404 when it has no data
HandleGetInventoryItem(w, fail) ==
    LET f == proc[w]
    IN  \E c \in Conns :
             /\ CanAcquire(c)
             /\ LET frame == [f EXCEPT !.op = "get_inventory_item", !.pc = "done"]
                    r == GetInventoryItemResult(frame, Session(c), f.part_number, fail)
                IN  proc' = [proc EXCEPT ![w] =
                        [r EXCEPT !.status = IF ~r.success THEN 500
                                             ELSE IF ~r.found THEN 404 ELSE 200]]

\* get_low_stock_items: 500 when the service fails, else the rows
HandleGetLowStockItems(w, fail) ==
    LET f == proc[w]
    IN  \E c \in Conns :
             /\ CanAcquire(c)
             /\ LET frame == [f EXCEPT !.op = "get_low_stock_items", !.pc = "done"]
                IN  \E r \in GetLowStockItemsResults(frame, Session(c), fail) :
                      proc' = [proc EXCEPT ![w] =
                          [r EXCEPT !.status = IF r.success THEN 200 ELSE 500]]

\* the application runs the endpoint the request was dispatched to
HandleRequest(w, fail) ==
    /\ proc[w].pc = "routed"
    /\ UNCHANGED <<impl, now, calls, conn>>
    /\ UnchangedTables
    /\ IF proc[w].endpoint = "get_low_stock_items"
       THEN HandleGetLowStockItems(w, fail)
       ELSE HandleGetInventoryItem(w, fail)

----------------------------------------------------------------------------
(* The function handler of /api/inventory/{part_number} *)

\* the JSON bodies of a request: without, or with, a current_stock
RequestBodies == {<<>>} \cup {<<n>> : n \in 0..MaxStock}

\* get_inventory_item: its own connection, SELECT ... WHERE part_number = ?,
\* fetchone(); an exception is re-raised and main answers 500
FunctionGetInventoryItem(frame, inv, p, fail) ==
    LET rows == {r \in inv : r.part_number = p}
    IN  IF fail THEN [frame EXCEPT !.status = 500, !.error = "store error"]
        ELSE IF rows # {}
        THEN [frame EXCEPT !.status = 200, !.success = TRUE, !.found = TRUE,
                           !.rows = <<CHOOSE r \in rows : TRUE>>]
        ELSE [frame EXCEPT !.status = 404, !.error = "Item not found"]

\* update_inventory_item: answers success when the body has a current_stock;
\* no statement is sent to the store
FunctionUpdateInventoryItem(frame, body) ==
    IF body # <<>>
    THEN [frame EXCEPT !.status = 200, !.success = TRUE, !.new_stock = body[1]]
    ELSE [frame EXCEPT !.status = 400, !.error = "No update data provided"]

\* delete_inventory_item: answers success; no statement is sent to the store
FunctionDeleteInventoryItem(frame) ==
    [frame EXCEPT !.status = 200, !.success = TRUE]

\* main(req): the part number of the route, then the method
FunctionMain(w, method, p, body, fail) ==
    /\ CanCall(w)
    /\ calls' = calls + 1
    /\ UNCHANGED <<impl, now, conn>>
    /\ UnchangedTables
    /\ LET frame == [IdleFrame EXCEPT !.op = "function_inventory_item", !.pc = "done",
                                      !.method = method, !.part_number = p]
       IN  proc' = [proc EXCEPT ![w] =
               IF p = ""
               THEN [frame EXCEPT !.status = 400, !.error = "Part number is required"]
               ELSE IF method = "GET"
               THEN FunctionGetInventoryItem(frame, inventory_items, p, fail)
               ELSE IF method = "PUT" THEN FunctionUpdateInventoryItem(frame, body)
               ELSE IF method = "DELETE" THEN FunctionDeleteInventoryItem(frame)
               ELSE [frame EXCEPT !.status = 405, !.error = "Method not allowed"]]

----------------------------------------------------------------------------
(* The clock *)

Tick ==
    /\ now < MaxClock
    /\ now' = now + 1
    /\ UNCHANGED <<impl, calls, conn, proc>>
    /\ UnchangedTables

----------------------------------------------------------------------------
(* Template persistence: create_bom_template against get_bom_template *)

Init ==
    /\ impl \in Impls
    /\ now = 0
    /\ calls = 0
    /\ conn = [c \in Conns |-> FreshConn]
    /\ proc = [w \in Workers |-> IdleFrame]
    /\ bom_templates = {}
    /\ bom_template_parts = <<>>
    /\ inventory_items = {}
    /\ audit_log = <<>>

DoCreateCall ==
    \E w \in Workers, id \in CustomIds, ps \in PartLists :
        CreateCall(w, NameOf(w), id, ps)
DoCreateHeader == \E w \in Workers, fail \in BOOLEAN : CreateHeader(w, fail)
DoCreatePart == \E w \in Workers, fail \in BOOLEAN : CreatePart(w, fail)
DoCreateCommit == \E w \in Workers, fail \in BOOLEAN : CreateCommit(w, fail)
DoCreateAudit == \E w \in Workers, fail \in BOOLEAN : CreateAudit(w, fail)
DoGetTemplateCall ==
    \E w \in Workers, id \in BomIds, fail \in BOOLEAN : GetTemplateCall(w, id, fail)
DoGetTemplateParts == \E w \in Workers, fail \in BOOLEAN : GetTemplateParts(w, fail)
DoCheckAvailabilityCall ==
    \E w \in Workers, id \in BomIds, fail \in BOOLEAN : CheckAvailabilityCall(w, id, fail)

Next ==
    \/ DoCreateCall
    \/ DoCreateHeader
    \/ DoCreatePart
    \/ DoCreateCommit
    \/ DoCreateAudit
    \/ DoGetTemplateCall
    \/ DoGetTemplateParts
    \/ DoCheckAvailabilityCall
    \/ Tick

Spec == Init /\ [][Next]_vars

----------------------------------------------------------------------------
(* Availability: check_bom_availability over any stored template and stock *)

\* an inventory row as create_inventory_item leaves it
InventoryRow(p, stock, min) ==
    [part_number |-> p, current_stock |-> stock, min_stock |-> min,
     unit_cost |-> CatalogCost(p),
     inventory_value |-> DerivedInventoryValue(stock, CatalogCost(p)),
     last_updated |-> 0]

\* the inventory tables with at most one row per part number
Inventories(stocks, mins) ==
    LET levels == {<<st, mn>> : st \in stocks, mn \in mins}
    IN  {{InventoryRow(p, f[p][1], f[p][2]) : p \in {q \in PartNumbers : f[q] # <<>>}} :
            f \in [PartNumbers -> levels \cup {<<>>}]}

\* part rows of a store that accepts quantity_required = 0
StoredPartsZeroQuantity ==
    {[part_number |-> p, quantity_required |-> q, unit_cost |-> CatalogCost(p)] :
        p \in PartNumbers, q \in 0..MaxRequired}

\* BOMTemplatePart declares quantity_required with gt=0
StoredParts ==
    {[part_number |-> p, quantity_required |-> q, unit_cost |-> CatalogCost(p)] :
        p \in PartNumbers, q \in 1..MaxRequired}

InitAvail ==
    /\ impl = "api"
    /\ now = 0
    /\ calls = 0
    /\ conn = [c \in Conns |-> FreshConn]
    /\ proc = [w \in Workers |-> IdleFrame]
    /\ bom_templates = {NewHeader("X", NameOf(1))}
    /\ \E ps \in SeqsUpTo(StoredParts, MaxStoredParts) :
          bom_template_parts = [k \in 1..Len(ps) |-> NewPartRow("X", ps[k])]
    /\ inventory_items \in Inventories(0..MaxStock, {1})
    /\ audit_log = <<>>

NextAvail == DoCheckAvailabilityCall

SpecAvail == InitAvail /\ [][NextAvail]_vars

----------------------------------------------------------------------------
(* Stock reconciliation: update_inventory_stock against get_inventory_item *)

StockInputs == (0 - 1)..MaxStock

InitStock ==
    /\ impl \in Impls
    /\ now = 0
    /\ calls = 0
    /\ conn = [c \in Conns |-> FreshConn]
    /\ proc = [w \in Workers |-> IdleFrame]
    /\ bom_templates = {}
    /\ bom_template_parts = <<>>
    /\ inventory_items \in Inventories(0..MaxStock, {1})
    /\ audit_log = <<>>

DoUpdateStockCall ==
    \E w \in Workers, p \in PartNumbers, n \in StockInputs : UpdateStockCall(w, p, n)
DoUpdateStockExec == \E w \in Workers, unavailable \in BOOLEAN : UpdateStockExec(w, unavailable)
DoUpdateStockFallback == \E w \in Workers, fail \in BOOLEAN : UpdateStockFallback(w, fail)
DoUpdateStockCommit == \E w \in Workers, fail \in BOOLEAN : UpdateStockCommit(w, fail)
DoGetInventoryItemCall ==
    \E w \in Workers, p \in PartNumbers, fail \in BOOLEAN : GetInventoryItemCall(w, p, fail)
DoCreateItemCall ==
    \E w \in Workers, p \in PartNumbers, stock \in 0..MaxStock, fail \in BOOLEAN :
        CreateItemCall(w, p, stock, fail)
DoCreateItemAudit == \E w \in Workers, fail \in BOOLEAN : CreateItemAudit(w, fail)

NextStock ==
    \/ DoUpdateStockCall
    \/ DoUpdateStockExec
    \/ DoUpdateStockFallback
    \/ DoUpdateStockCommit
    \/ DoGetInventoryItemCall
    \/ DoCreateItemCall
    \/ DoCreateItemAudit
    \/ Tick

SpecStock == InitStock /\ [][NextStock]_vars

----------------------------------------------------------------------------
(* Low stock: get_low_stock_items over any inventory *)

InitLowStock ==
    /\ impl = "api"
    /\ now = 0
    /\ calls = 0
    /\ conn = [c \in Conns |-> FreshConn]
    /\ proc = [w \in Workers |-> IdleFrame]
    /\ bom_templates = {}
    /\ bom_template_parts = <<>>
    /\ inventory_items \in Inventories(0..MaxStock, 0..MaxMinStock)
    /\ audit_log = <<>>

DoGetLowStockItemsCall == \E w \in Workers, fail \in BOOLEAN : GetLowStockItemsCall(w, fail)

NextLowStock == DoGetLowStockItemsCall

SpecLowStock == InitLowStock /\ [][NextLowStock]_vars

----------------------------------------------------------------------------
(* The FastAPI application over every inventory *)

DoHttpRequest ==
    \E w \in Workers, method \in RequestMethods, segs \in RequestPaths :
        HttpRequest(w, method, segs)
DoHandleRequest == \E w \in Workers, fail \in BOOLEAN : HandleRequest(w, fail)

NextRoutes ==
    \/ DoHttpRequest
    \/ DoHandleRequest

SpecRoutes == InitLowStock /\ [][NextRoutes]_vars

----------------------------------------------------------------------------
(* The function handler over every inventory *)

FunctionMethods == {"GET", "PUT", "DELETE", "POST"}

DoFunctionMain ==
    \E w \in Workers, method \in FunctionMethods, p \in PartNumbers \cup {""},
       body \in RequestBodies, fail \in BOOLEAN :
        FunctionMain(w, method, p, body, fail)

NextFunction == DoFunctionMain

SpecFunction == InitLowStock /\ [][NextFunction]_vars

----------------------------------------------------------------------------
(* Properties of template persistence *)

IsCreate(w) == proc[w].op = "create_bom_template"
IsGet(w) == proc[w].op = "get_bom_template"

\* the create call of w has committed its template
Created(w) ==
    /\ IsCreate(w)
    /\ \/ proc[w].pc = "ct_audit"
       \/ proc[w].pc = "done" /\ proc[w].success

\* the get call of w has returned a template
GotTemplate(w) ==
    IsGet(w) /\ proc[w].pc = "done" /\ proc[w].success /\ proc[w].found

\* the check_availability call of w has returned its rows
CheckedAvailability(w) ==
    proc[w].op = "check_bom_availability" /\ proc[w].pc = "done" /\ proc[w].success

\* how many times the part (p, q, u) occurs in a list of parts or rows
Occurrences(s, p, q, u) ==
    Cardinality({k \in 1..Len(s) : /\ s[k].part_number = p
                                   /\ s[k].quantity_required = q
                                   /\ s[k].unit_cost = u})

SameParts(rows, parts) ==
    /\ Len(rows) = Len(parts)
    /\ \A k \in 1..Len(parts) :
         Occurrences(rows, parts[k].part_number, parts[k].quantity_required,
                     parts[k].unit_cost)
           = Occurrences(parts, parts[k].part_number, parts[k].quantity_required,
                         parts[k].unit_cost)

OrderedByPartNumber(rows) ==
    \A k \in 1..(Len(rows) - 1) :
        PartRank(rows[k].part_number) <= PartRank(rows[k + 1].part_number)

\* what any connection reads for bom_id id: no header and no part row
NotFoundAnywhere(id) ==
    \A c \in Conns : /\ SelectHeader(Session(c), id) = {}
                     /\ SelectParts(Session(c), id) = <<>>

\* C1: when the insert of a part row fails, the step that ends the call leaves
\* no header and no part row of that bom_id behind: get_template finds nothing.
C1_CreateRollsBackHeader ==
    [][\A w \in Workers :
         (/\ proc[w].pc = "ct_parts"
          /\ proc[w].i <= Len(proc[w].parts)
          /\ proc'[w].pc = "done"
          /\ ~proc'[w].success)
         => NotFoundAnywhere(proc[w].bom_id)']_vars

\* the second of two part inserts has failed and nothing of the template is left
C1_Witness ==
    \E w \in Workers :
        /\ IsCreate(w) /\ proc[w].pc = "done" /\ ~proc[w].success
        /\ proc[w].error = "store error"
        /\ Len(proc[w].parts) = 2 /\ proc[w].i = 2
        /\ NotFoundAnywhere(proc[w].bom_id)

\* C2: a get_template that has seen the header of a template never runs beside
\* a create of that template whose transaction is still open, and what it returns
\* has all the parts of the request that created the template; a
\* check_availability sees none of the parts or all of them.
C2_NoPartialTemplateObserved ==
    \A g \in Workers, c \in Workers :
        /\ (/\ IsGet(g) /\ proc[g].found
            /\ IsCreate(c) /\ proc[c].bom_id = proc[g].bom_id)
           => /\ proc[c].pc # "ct_parts"
              /\ (GotTemplate(g) /\ Created(c)) => SameParts(proc[g].rows, proc[c].parts)
        /\ (/\ CheckedAvailability(g)
            /\ IsCreate(c) /\ proc[c].bom_id = proc[g].bom_id)
           => /\ proc[c].pc = "ct_parts" => proc[g].rows = <<>>
              /\ Created(c) => Len(proc[g].rows) \in {0, Len(proc[c].parts)}

\* a reader got the whole two-part template while the create call was still running
C2_Witness ==
    \E g \in Workers, c \in Workers :
        /\ GotTemplate(g) /\ IsCreate(c) /\ proc[c].pc = "ct_audit"
        /\ proc[c].bom_id = proc[g].bom_id
        /\ Len(proc[c].parts) = 2 /\ Len(proc[g].rows) = 2

\* C7: a create_template call with an empty part list ends with a validation
\* error and never reaches the store.
C7_EmptyPartsRejected ==
    \A w \in Workers :
        (IsCreate(w) /\ proc[w].parts = <<>>)
        => /\ proc[w].pc = "done" /\ ~proc[w].success /\ proc[w].error = "validation"
           /\ \A h \in bom_templates : h.bom_id # proc[w].bom_id \/ proc[w].bom_id = ""

\* C8: a create_template whose custom_id is the bom_id of an existing template
\* fails at the header insert with an error and leaves the tables as they were.
C8_DuplicateCustomIdFails ==
    [][\A w \in Workers :
         (/\ proc[w].pc = "ct_header"
          /\ proc[w].custom_id # ""
          /\ \E h \in bom_templates : h.bom_id = proc[w].custom_id
          /\ proc'[w] # proc[w])
         => /\ proc'[w].pc = "done" /\ ~proc'[w].success
            /\ proc'[w].error # ""
            /\ bom_templates' = bom_templates
            /\ bom_template_parts' = bom_template_parts]_vars

\* a create with the custom_id of another client's template ended in duplicate key
C8_Witness ==
    \E w \in Workers :
        /\ IsCreate(w) /\ proc[w].pc = "done" /\ ~proc[w].success
        /\ proc[w].error = "duplicate key" /\ proc[w].custom_id = "X"
        /\ Len(proc[w].parts) > 0
        /\ \E h \in bom_templates : h.bom_id = "X" /\ h.name # proc[w].name

----------------------------------------------------------------------------
(* Properties of the availability check *)

\* C10: every row of an availability result has
\* available_quantity + shortage = quantity_required.
C10_AvailablePlusShortage ==
    \A w \in Workers :
        CheckedAvailability(w)
        => \A k \in 1..Len(proc[w].rows) :
             proc[w].rows[k].available_quantity + proc[w].rows[k].shortage
               = proc[w].rows[k].quantity_required

\* a result with a part that has no inventory record and a part in partial stock
C10_Witness ==
    \E w \in Workers :
        /\ CheckedAvailability(w)
        /\ Len(proc[w].rows) = 2
        /\ \E k \in 1..2 :
             /\ \A r \in inventory_items : r.part_number # proc[w].rows[k].part_number
             /\ proc[w].rows[k].shortage = proc[w].rows[k].quantity_required
        /\ \E k \in 1..2 :
             /\ proc[w].rows[k].availability_status = "Partial"
             /\ proc[w].rows[k].available_quantity = 1
             /\ proc[w].rows[k].shortage = 1

----------------------------------------------------------------------------
(* Properties of stock reconciliation *)

IsUpdateStock(w) == proc[w].op = "update_inventory_stock"

\* C3: when update_inventory_stock(p, n) returns success, the record of p has
\* current_stock = n and inventory_value = n * unit_cost, on either path.
C3_SetStockRecomputesValue ==
    [][\A w \in Workers :
         (proc[w].pc = "us_commit" /\ proc'[w].pc = "done" /\ proc'[w].success)
         => \A r \in inventory_items' :
              r.part_number = proc[w].part_number
              => /\ r.current_stock = proc[w].new_stock
                 /\ r.inventory_value = proc[w].new_stock * r.unit_cost]_vars

\* C4: the UPDATE of the fallback path leaves the inventory as
\* sp_update_inventory_stock would have left it from the same starting record.
C4_FallbackEqualsProcedure ==
    [][\A w \in Workers :
         (proc[w].pc = "us_fallback" /\ proc'[w].pc = "us_commit")
         => ApplyStockWrites(inventory_items', conn'[proc[w].cn].pend_stock)
              = VisibleInventory(SpUpdateStock(Session(proc[w].cn), proc[w].part_number,
                                               proc[w].new_stock))]_vars

\* C5: the fallback UPDATE is reached only after the procedure was unavailable,
\* and a request the procedure rejected ends as a failure carrying the rejection.
C5_FallbackOnlyWhenUnavailable ==
    \A w \in Workers :
        IsUpdateStock(w)
        => /\ (proc[w].pc = "us_fallback" \/ proc[w].path = "fallback")
              => proc[w].sp = "unavailable"
           /\ proc[w].sp = "rejected"
              => /\ proc[w].pc = "done"
                 /\ ~proc[w].success
                 /\ proc[w].error = "not found"

\* C6: update_inventory_stock on a part number without a record does not
\* return success.
C6_UnknownPartFails ==
    \A w \in Workers :
        (/\ IsUpdateStock(w)
         /\ proc[w].pc = "done"
         /\ \A r \in inventory_items : r.part_number # proc[w].part_number)
        => ~proc[w].success

----------------------------------------------------------------------------
(* Properties of the availability classification *)

\* stock_qty of a part: the stock of its record, 0 without a record
StockQty(p) ==
    LET m == {r \in inventory_items : r.part_number = p}
    IN  IF m = {} THEN 0 ELSE (CHOOSE r \in m : TRUE).current_stock

Min2(a, b) == IF a <= b THEN a ELSE b
Max2(a, b) == IF a >= b THEN a ELSE b

\* C11: every row of an availability result is classified from stock_qty and
\* required: Available iff stock_qty >= required, Partial iff
\* 0 < stock_qty < required, Unavailable iff stock_qty = 0, with
\* available_quantity = min(stock_qty, required) and
\* shortage = max(required - stock_qty, 0).
C11_Classification ==
    \A w \in Workers :
        CheckedAvailability(w)
        => \A k \in 1..Len(proc[w].rows) :
             LET r == proc[w].rows[k]
                 stock == StockQty(r.part_number)
                 required == r.quantity_required
             IN  /\ r.current_stock = stock
                 /\ (r.availability_status = "Available") = (stock >= required)
                 /\ (r.availability_status = "Partial") = (0 < stock /\ stock < required)
                 /\ (r.availability_status = "Unavailable") = (stock = 0)
                 /\ r.available_quantity = Min2(stock, required)
                 /\ r.shortage = Max2(required - stock, 0)

\* a result with (1, 1, Partial) for stock 1 / required 2, (0, 2, Unavailable)
\* for a part without a record, and a row with more stock than required
C11_Witness ==
    \E w \in Workers :
        /\ CheckedAvailability(w)
        /\ \E k \in 1..Len(proc[w].rows) :
             /\ StockQty(proc[w].rows[k].part_number) = 1
             /\ proc[w].rows[k].quantity_required = 2
             /\ proc[w].rows[k].available_quantity = 1
             /\ proc[w].rows[k].shortage = 1
             /\ proc[w].rows[k].availability_status = "Partial"
        /\ \E k \in 1..Len(proc[w].rows) :
             /\ \A r \in inventory_items : r.part_number # proc[w].rows[k].part_number
             /\ proc[w].rows[k].quantity_required = 2
             /\ proc[w].rows[k].available_quantity = 0
             /\ proc[w].rows[k].shortage = 2
             /\ proc[w].rows[k].availability_status = "Unavailable"

\* C12: in every availability result, status = Available iff shortage = 0,
\* status = Unavailable iff available_quantity = 0, every other row is Partial.
C12_StatusAgreesWithQuantities ==
    \A w \in Workers :
        CheckedAvailability(w)
        => \A k \in 1..Len(proc[w].rows) :
             LET r == proc[w].rows[k]
             IN  /\ (r.availability_status = "Available") = (r.shortage = 0)
                 /\ (r.availability_status = "Unavailable") = (r.available_quantity = 0)
                 /\ (r.shortage # 0 /\ r.available_quantity # 0)
                    => r.availability_status = "Partial"

\* a result with one row of each status
C12_Witness ==
    \E w \in Workers :
        /\ CheckedAvailability(w)
        /\ Len(proc[w].rows) = 3
        /\ \A st \in {"Available", "Partial", "Unavailable"} :
             \E k \in 1..3 : proc[w].rows[k].availability_status = st

WorstFirstRank(st) ==
    IF st = "Unavailable" THEN 1 ELSE IF st = "Partial" THEN 2 ELSE 3

\* C13: an availability result lists Unavailable rows before Partial rows before
\* Available rows, and rows of one status in non-increasing order of shortage.
C13_WorstFirst ==
    \A w \in Workers :
        CheckedAvailability(w)
        => \A j \in 1..Len(proc[w].rows), k \in 1..Len(proc[w].rows) :
             j < k
             => LET a == proc[w].rows[j]
                    b == proc[w].rows[k]
                IN  /\ WorstFirstRank(a.availability_status)
                         <= WorstFirstRank(b.availability_status)
                    /\ a.availability_status = b.availability_status
                       => a.shortage >= b.shortage

\* a result whose rows come back in the reverse of the stored order: two
\* Unavailable rows with shortage 2 then 1, then a Partial row
C13_Witness ==
    \E w \in Workers :
        /\ CheckedAvailability(w)
        /\ Len(proc[w].rows) = 3
        /\ proc[w].rows[1].availability_status = "Unavailable"
        /\ proc[w].rows[1].shortage = 2
        /\ proc[w].rows[2].availability_status = "Unavailable"
        /\ proc[w].rows[2].shortage = 1
        /\ proc[w].rows[3].availability_status = "Partial"
        /\ bom_template_parts[1].part_number = proc[w].rows[3].part_number
        /\ bom_template_parts[3].quantity_required = 2
        /\ bom_template_parts[3].part_number = proc[w].rows[1].part_number

----------------------------------------------------------------------------
(* Properties of the audit trail *)

AuditEntriesFor(action, entity_type, entity_id) ==
    {k \in 1..Len(audit_log) : audit_log[k] = AuditEntry(action, entity_type, entity_id)}

\* C14: a create_template that has returned success, and whose audit write the
\* audit store did not refuse, has exactly one audit entry with action CREATE,
\* entity_type bom_template and its bom_id as entity_id.
C14_OneAuditEntryPerCreate ==
    \A w \in Workers :
        (/\ IsCreate(w) /\ proc[w].pc = "done" /\ proc[w].success
         /\ proc[w].audit # "refused")
        => Cardinality(AuditEntriesFor("CREATE", "bom_template", proc[w].bom_id)) = 1

\* C15: when the audit write of a committed template fails, create_template
\* returns success with the bom_id and no error, and the header and every part
\* row stay in the store.
C15_AuditFailureIsSwallowed ==
    [][\A w \in Workers :
         (proc[w].pc = "ct_audit" /\ proc'[w].pc = "done" /\ proc'[w].audit # "written")
         => /\ proc'[w].success
            /\ proc'[w].data = proc[w].bom_id
            /\ proc'[w].error = ""
            /\ \E h \in bom_templates' : h.bom_id = proc[w].bom_id
            /\ Len(SelectSeq(bom_template_parts', LAMBDA r : r.bom_id = proc[w].bom_id))
                 = Len(proc[w].parts)]_vars

\* a create of two parts that returned success although the audit store
\* refused the entry
C15_Witness ==
    \E w \in Workers :
        /\ IsCreate(w) /\ proc[w].pc = "done" /\ proc[w].success
        /\ proc[w].audit = "refused"
        /\ proc[w].data = proc[w].bom_id
        /\ Len(proc[w].parts) = 2
        /\ \E h \in bom_templates : h.bom_id = proc[w].bom_id
        /\ AuditEntriesFor("CREATE", "bom_template", proc[w].bom_id) = {}

----------------------------------------------------------------------------
(* Properties of stock mutations *)

\* C16: a set_stock that has returned success has an audit entry recording the
\* mutation of its part.
C16_StockUpdateIsAudited ==
    \A w \in Workers :
        (IsUpdateStock(w) /\ proc[w].pc = "done" /\ proc[w].success)
        => \E k \in 1..Len(audit_log) :
             /\ audit_log[k].entity_id = proc[w].part_number
             /\ audit_log[k].action # "CREATE"

\* C17: a set_stock request with a negative new_stock ends at once with a
\* validation error: no connection is taken, no statement is executed and no
\* table changes.
C17_NegativeStockRejected ==
    [][\A w \in Workers :
         (proc'[w] # proc[w] /\ IsUpdateStock(w)' /\ proc'[w].new_stock < 0)
         => /\ proc'[w].pc = "done"
            /\ ~proc'[w].success
            /\ proc'[w].error = "validation"
            /\ conn' = conn
            /\ inventory_items' = inventory_items
            /\ audit_log' = audit_log]_vars

\* a rejected set_stock(p, -1) on a part whose record is as it was created
C17_Witness ==
    \E w \in Workers :
        /\ IsUpdateStock(w) /\ proc[w].pc = "done" /\ ~proc[w].success
        /\ proc[w].new_stock = 0 - 1
        /\ proc[w].error = "validation"
        /\ \E r \in inventory_items :
             /\ r.part_number = proc[w].part_number
             /\ r.current_stock = 2
             /\ r.inventory_value = 2 * r.unit_cost

\* C18: every inventory record has inventory_value = current_stock * unit_cost,
\* after any sequence of create_inventory_item and set_stock calls.
C18_InventoryValueDerived ==
    \A r \in inventory_items : r.inventory_value = r.current_stock * r.unit_cost

----------------------------------------------------------------------------
(* Properties of identifiers and of the low stock report *)

\* C19: create_template takes custom_id as the bom_id when one is given and
\* otherwise "bom-" followed by the clock in whole seconds; a successful create
\* returns that bom_id as its data and the template is stored under it.
C19_BomIdResolution ==
    [][\A w \in Workers :
         (IsCreate(w)' /\ proc'[w] # proc[w])
         => /\ (/\ proc'[w].bom_id # ""
                /\ proc[w].pc \in {"idle", "done"} \/ proc'[w].bom_id # proc[w].bom_id)
               => proc'[w].bom_id =
                    IF proc'[w].custom_id # "" THEN proc'[w].custom_id
                    ELSE "bom-" \o IntToStr(now \div TicksPerSecond)
            /\ (proc'[w].pc = "done" /\ proc'[w].success)
               => /\ proc'[w].data = proc'[w].bom_id
                  /\ \E h \in bom_templates' : h.bom_id = proc'[w].bom_id]_vars

\* one template created as "X" from custom_id "X", another created without a
\* custom_id half a second after the epoch second began, as "bom-0"
C19_Witness ==
    /\ now = 1
    /\ \E v \in Workers, w \in Workers :
        /\ IsCreate(v) /\ proc[v].pc = "done" /\ proc[v].success
        /\ proc[v].custom_id = "X" /\ proc[v].data = "X"
        /\ IsCreate(w) /\ proc[w].pc = "done" /\ proc[w].success
        /\ proc[w].custom_id = "" /\ proc[w].data = "bom-0"
        /\ {h.bom_id : h \in bom_templates} = {"X", "bom-0"}

GotLowStock(w) ==
    proc[w].op = "get_low_stock_items" /\ proc[w].pc = "done" /\ proc[w].success

\* C20: the low stock report has an entry for a record iff current_stock <
\* min_stock, one per record, each with shortage = min_stock - current_stock > 0.
C20_LowStockReport ==
    \A w \in Workers :
        GotLowStock(w)
        => /\ \A r \in inventory_items :
                (r.current_stock < r.min_stock)
                  = (\E k \in 1..Len(proc[w].rows) :
                        proc[w].rows[k].part_number = r.part_number)
           /\ Len(proc[w].rows)
                = Cardinality({r \in inventory_items : r.current_stock < r.min_stock})
           /\ \A k \in 1..Len(proc[w].rows) :
                LET e == proc[w].rows[k]
                IN  /\ \E r \in inventory_items :
                         /\ r.part_number = e.part_number
                         /\ r.current_stock = e.current_stock
                         /\ r.min_stock = e.min_stock
                    /\ e.shortage = e.min_stock - e.current_stock
                    /\ e.shortage > 0
                    /\ e.current_stock < e.min_stock

\* a report with the one entry of a part at 0 of 2, beside a part that is
\* exactly at its minimum and is left out
C20_Witness ==
    \E w \in Workers :
        /\ GotLowStock(w)
        /\ Len(proc[w].rows) = 1
        /\ proc[w].rows[1].current_stock = 0
        /\ proc[w].rows[1].shortage = 2
        /\ \E r \in inventory_items :
             /\ r.part_number # proc[w].rows[1].part_number
             /\ r.current_stock = 2 /\ r.min_stock = 2

\* C21: the entries of the low stock report are in non-increasing order of
\* shortage.
C21_LargestShortfallFirst ==
    \A w \in Workers :
        GotLowStock(w)
        => \A k \in 1..(Len(proc[w].rows) - 1) :
             proc[w].rows[k].shortage >= proc[w].rows[k + 1].shortage

\* a report of two entries, the part short by 2 before the part short by 1
C21_Witness ==
    \E w \in Workers :
        /\ GotLowStock(w)
        /\ Len(proc[w].rows) = 2
        /\ proc[w].rows[1].shortage = 2
        /\ proc[w].rows[2].shortage = 1

----------------------------------------------------------------------------
\* C22: no service operation raises to its caller. Whatever the store raised
\* (a statement, the commit, a missing or closed pool, the rollback or the
\* restoring of autocommit on a lost connection), the call ends with a result
\* of success = false and a non-empty error, and a result has an empty error
\* exactly when success = true.
C22_FailuresAreResults ==
    \A w \in Workers :
        /\ proc[w].pc # "raised"
        /\ proc[w].pc = "done" => (proc[w].success <=> proc[w].error = "")

\* one create ended on a lost connection, where the rollback raised as well,
\* another found no pool; both returned a failure result
C22_Witness ==
    \E w, v \in Workers :
        /\ IsCreate(w) /\ proc[w].pc = "done"
        /\ ~proc[w].success /\ proc[w].error = "connection lost"
        /\ IsCreate(v) /\ proc[v].pc = "done"
        /\ ~proc[v].success /\ proc[v].error = "no connection pool"

----------------------------------------------------------------------------
\* C23: whatever creates have succeeded or failed, every template part row
\* belongs to a template header of the same bom_id, in the committed tables
\* and in what any connection reads.
C23_NoPartWithoutHeader ==
    /\ \A r \in Range(bom_template_parts) :
          \E h \in bom_templates : h.bom_id = r.bom_id
    /\ \A c \in Conns :
          \A r \in Range(VisibleParts(Session(c))) :
             \E h \in VisibleTemplates(Session(c)) : h.bom_id = r.bom_id

\* one create failed at its second part and was rolled back, another committed
\* a template with parts
C23_Witness ==
    \E w, v \in Workers :
        /\ IsCreate(w) /\ proc[w].pc = "done" /\ ~proc[w].success
        /\ Len(proc[w].parts) = 2 /\ proc[w].i = 2
        /\ Created(v) /\ Len(proc[v].parts) > 0
        /\ \E r \in Range(bom_template_parts) : r.bom_id = proc[v].bom_id

----------------------------------------------------------------------------
\* the update_inventory_stock call of w has returned success for a stored part
StockUpdated(w) ==
    /\ IsUpdateStock(w) /\ proc[w].pc = "done" /\ proc[w].success
    /\ proc[w].rows_affected > 0

\* C24: after two update_inventory_stock calls on the same part have both
\* returned success, in whatever interleaving, the record has one of the two
\* requested stocks and inventory_value = that stock * unit_cost.
C24_ConcurrentSetStockSerial ==
    \A w, v \in Workers :
        (/\ w # v /\ StockUpdated(w) /\ StockUpdated(v)
         /\ proc[w].part_number = proc[v].part_number)
        => \A r \in inventory_items :
             r.part_number = proc[w].part_number
             => /\ r.current_stock \in {proc[w].new_stock, proc[v].new_stock}
                /\ r.inventory_value = r.current_stock * r.unit_cost

----------------------------------------------------------------------------
\* an inventory table without the three columns an update of part p may set
OutsideStockColumns(inv, p) ==
    {IF r.part_number = p
     THEN [r EXCEPT !.current_stock = 0, !.inventory_value = 0, !.last_updated = 0]
     ELSE r : r \in inv}

\* C25: no step of an update_inventory_stock(p, n) call changes anything but
\* current_stock, inventory_value and last_updated of the record of p: the
\* other columns of p, the other records, the template headers and the part
\* rows stay as they were.
C25_SetStockFrame ==
    [][\A w \in Workers :
         (IsUpdateStock(w) /\ proc[w].pc \in {"us_exec", "us_fallback", "us_commit"}
          /\ proc'[w] # proc[w])
         => /\ OutsideStockColumns(inventory_items', proc[w].part_number)
                 = OutsideStockColumns(inventory_items, proc[w].part_number)
            /\ bom_templates' = bom_templates
            /\ bom_template_parts' = bom_template_parts]_vars

----------------------------------------------------------------------------
\* the rows of part p in an inventory table
RecordsOf(inv, p) == {r \in inv : r.part_number = p}

\* C26: an update_inventory_stock that has returned success = false has written
\* nothing: the record of its part is not changed by the step that ends the
\* call, nor by any later step of a call on another part, whichever pooled
\* connection that call uses.
C26_FailedUpdateWritesNothing ==
    [][\A w \in Workers :
         (/\ proc'[w].op = "update_inventory_stock"
          /\ proc'[w].pc = "done" /\ ~proc'[w].success
          /\ \A v \in Workers \ {w} :
                proc'[v] # proc[v] => /\ proc[v].part_number # proc'[w].part_number
                                      /\ proc'[v].part_number # proc'[w].part_number)
         => RecordsOf(inventory_items', proc'[w].part_number)
              = RecordsOf(inventory_items, proc'[w].part_number)]_vars

----------------------------------------------------------------------------
\* the part rows stored for bom_id id
StoredPartsOf(id) == SelectSeq(bom_template_parts, LAMBDA r : r.bom_id = id)

\* C27: a step that appends a CREATE / bom_template entry to the audit log is
\* the audit step of a create whose header and parts were already committed
\* before the step, and a create that ends in failure appends nothing.
C27_AuditAfterCommit ==
    [][/\ \A k \in (Len(audit_log) + 1)..Len(audit_log') :
            (audit_log'[k].action = "CREATE" /\ audit_log'[k].entity_type = "bom_template")
            => \E w \in Workers :
                 /\ IsCreate(w) /\ proc[w].pc = "ct_audit"
                 /\ proc[w].bom_id = audit_log'[k].entity_id
                 /\ \E h \in bom_templates : h.bom_id = proc[w].bom_id
                 /\ Len(StoredPartsOf(proc[w].bom_id)) = Len(proc[w].parts)
       /\ \A w \in Workers :
            (/\ proc'[w].op = "create_bom_template" /\ proc'[w] # proc[w]
             /\ proc'[w].pc = "done" /\ ~proc'[w].success)
            => audit_log' = audit_log]_vars

\* the audit entry of a committed template with parts is in the log, and
\* another create has failed and left none
C27_Witness ==
    \E w, v \in Workers :
        /\ Created(w) /\ proc[w].pc = "done" /\ proc[w].audit = "written"
        /\ Len(proc[w].parts) > 0
        /\ AuditEntriesFor("CREATE", "bom_template", proc[w].bom_id) # {}
        /\ IsCreate(v) /\ proc[v].pc = "done" /\ ~proc[v].success
        /\ proc[v].error = "store error"
        /\ AuditEntriesFor("CREATE", "bom_template", proc[v].bom_id) = {}

----------------------------------------------------------------------------
\* C28: create calls without a custom_id get distinct bom_ids, also within one
\* clock second: none of them is refused as a duplicate, and two that
\* succeeded have different bom_ids.
C28_GeneratedIdsDistinct ==
    \A w \in Workers :
        (IsCreate(w) /\ proc[w].custom_id = "" /\ proc[w].pc = "done")
        => /\ proc[w].error # "duplicate key"
           /\ \A v \in Workers \ {w} :
                 (Created(w) /\ Created(v) /\ proc[v].custom_id = "")
                 => proc[v].bom_id # proc[w].bom_id

----------------------------------------------------------------------------
\* C29: a GET request for /api/inventory/low-stock is dispatched to
\* get_low_stock_items, not to get_inventory_item with part_number "low-stock".
C29_LowStockRouteReached ==
    \A w \in Workers :
        (/\ proc[w].method = "GET"
         /\ proc[w].request = <<"api", "inventory", "low-stock">>)
        => proc[w].endpoint = "get_low_stock_items"

----------------------------------------------------------------------------
\* C30: when the function handler answers a PUT of current_stock = n for a part
\* with success, the stock is persisted: the record of the part has
\* current_stock = n, and a GET of the part that follows returns it.
C30_FunctionPutPersists ==
    [][\A w \in Workers :
         (/\ proc'[w] # proc[w]
          /\ proc'[w].op = "function_inventory_item" /\ proc'[w].method = "PUT"
          /\ proc'[w].status = 200 /\ proc'[w].success)
         => LET got == FunctionGetInventoryItem(IdleFrame, inventory_items',
                                                proc'[w].part_number, FALSE)
            IN  /\ got.status = 200
                /\ got.rows[1].current_stock = proc'[w].new_stock]_vars
====
